---------------------------- MODULE Spec2Model ----------------------------
(***************************************************************************)
(* A model of discord_slash/component.py (the message-component value      *)
(* objects: Button, SelectOption, Select, TextInput, Modal, ActionRow and  *)
(* _get_components_json) and of utils/manage_components.py                 *)
(* (get_components_ids).                                                   *)
(*                                                                         *)
(* Python values are represented as follows.                               *)
(*   - an optional string is a TLA+ string, None being the string "None"   *)
(*     (no Python string "None" is ever used as data);                     *)
(*   - an optional integer is a sequence: << >> for None, <<n>> for n;     *)
(*   - an object is a record with a field cls naming its class;            *)
(*   - a dict is a record whose fields are the keys of the dict;           *)
(*   - the outcome of a call is a record [err, val]: err is "ok" or the    *)
(*     name of the exception raised, val the value returned (for a setter: *)
(*     the receiver as the call leaves it, raised or not).                 *)
(***************************************************************************)
EXTENDS Integers, Sequences, FiniteSets, TLC

VARIABLES
    uuid,       \* number of uuid1() calls made so far
    obj,        \* the leaf object under test (Button, SelectOption, Select, TextInput) or NoObj
    last,       \* the last call made: its name, its arguments and its outcome
    made,       \* the custom_ids of the components constructed without an explicit custom_id
    components, \* the caller's argument of _get_components_json (mutated in place)
    ret,        \* what the last call on components returned or raised
    component,  \* the argument of get_components_ids
    ids         \* what consuming get_components_ids(component) yielded and raised

vars == <<uuid, obj, last, made, components, ret, component, ids>>

---------------------------------------------------------------------------
(* Bounds of the model *)

\* uuid1() is called at most this many times in a behaviour
MaxUuid == 2
\* option lists are tried up to MaxOptions + ExtraOptions entries
ExtraOptions == 2
\* at most this many components are recorded in made
MaxMade == 4
\* the caller's list passed to _get_components_json has at most this many elements
MaxRows == 2
\* a list passed to get_components_ids has at most this many elements
MaxIds == 2
\* an ActionRow is built up to this many components
MaxRowLen == 2
\* the interpreter raises RecursionError when a call would make the stack
\* deeper than this (sys.getrecursionlimit(), 1000 unless changed)
RecursionLimit == 3

(* Program constants *)

\* ButtonStyle.URL
URL == 5
\* the largest number of options a Select accepts
MaxOptions == 25

---------------------------------------------------------------------------
(* Python basics *)

None == "None"
NoneInt == << >>
NoObj == [cls |-> "NoObj"]
NoEmoji == [py |-> "NoneType"]
NotCalled == [err |-> "not called"]

Ok(v) == [err |-> "ok", val |-> v]
Raise(e, v) == [err |-> e, val |-> v]

\* truth value of an optional string: None and "" are falsy
Truthy(v) == v \notin {None, ""}

\* d.get(k, default) for the key "emoji" of a dict
GetEmoji(d) == IF "emoji" \in DOMAIN d THEN d.emoji ELSE NoEmoji

\* str(uuid1()): the n-th call yields a value no other call yields
uuid1(n) == "uuid-" \o ToString(n)

---------------------------------------------------------------------------
(* emoji_to_dict, component.py 22-35 *)

\* the emoji arguments tried: none, a unicode emoji given as a string, a
\* custom animated PartialEmoji and a guild Emoji
StrEmoji == [py |-> "str", v |-> "s"]
CustomPartialEmoji == [py |-> "PartialEmoji", name |-> "c", id |-> "7", animated |-> TRUE]
GuildEmoji == [py |-> "Emoji", name |-> "e", id |-> "9", animated |-> FALSE]
EmojiArgs == {NoEmoji, StrEmoji, CustomPartialEmoji, GuildEmoji}

\* a dict value
Dict(d) == [py |-> "dict", d |-> d]

\* PartialEmoji.to_dict() of discord.py, called at line 32: the name, and the
\* id and animated keys only when they are truthy
PartialEmoji_to_dict(e) ==
    IF Truthy(e.id)
    THEN IF e.animated THEN [name |-> e.name, id |-> e.id, animated |-> TRUE]
                       ELSE [name |-> e.name, id |-> e.id]
    ELSE IF e.animated THEN [name |-> e.name, animated |-> TRUE]
                       ELSE [name |-> e.name]

\* PartialEmoji(name=emoji["name"], animated=emoji.get("animated", False), id=emoji.get("id"))
PartialEmoji(d) ==
    [py |-> "PartialEmoji", name |-> d.name,
     id |-> IF "id" \in DOMAIN d THEN d.id ELSE None,
     animated |-> IF "animated" \in DOMAIN d THEN d.animated ELSE FALSE]

emoji_to_dict(emoji) ==
    CASE emoji.py = "Emoji" ->
           Dict([name |-> emoji.name, id |-> emoji.id, animated |-> emoji.animated])
      [] emoji.py = "PartialEmoji" -> Dict(PartialEmoji_to_dict(emoji))
      [] emoji.py = "str" -> Dict([name |-> emoji.v, id |-> None])
      [] emoji.py = "NoneType" -> Dict(<< >>)      \* None or {}
      [] OTHER -> emoji                            \* a dict is returned as it is

\* the truth value of self.emoji: None and the empty dict are falsy
EmojiTruthy(e) == e.py # "NoneType" /\ ~(e.py = "dict" /\ DOMAIN e.d = {})

\* self.emoji.to_dict(): only a PartialEmoji has the method; the stored emoji
\* is the dict emoji_to_dict made, and a dict has no attribute to_dict
emoji_dot_to_dict(e) ==
    IF e.py = "PartialEmoji" THEN Ok(PartialEmoji_to_dict(e))
    ELSE Raise("AttributeError", e)

---------------------------------------------------------------------------
(* Button, component.py 507-666 *)

\* @custom_id.setter, 617-622
Button_custom_id_setter(self, value) ==
    IF self.style = URL
    THEN Raise("InvalidArgument", self)
    ELSE Ok([self EXCEPT !.custom_id = value])

\* @style.setter, 594-601
Button_style_setter(self, value) ==
    IF value = URL /\ Truthy(self.custom_id)
    THEN Raise("InvalidArgument", self)
    ELSE IF ~(1 <= value /\ value <= URL)
         THEN Raise("InvalidArgument", self)
         ELSE Ok([self EXCEPT !.style = value])

\* @label.setter, 603-608
Button_label_setter(self, value) ==
    IF ~Truthy(value) /\ ~EmojiTruthy(self.emoji)
    THEN Raise("InvalidArgument", self)
    ELSE Ok([self EXCEPT !.label = value])

\* @url.setter, 610-615
Button_url_setter(self, value) ==
    IF Truthy(value) /\ self.style # URL
    THEN Raise("InvalidArgument", self)
    ELSE Ok([self EXCEPT !.url = value])

\* Button.__init__, 531-555: the fields are stored without their setters,
\* except custom_id, whose setter is called last. fresh is what str(uuid1())
\* yields if it is called. A constructor that raises yields no object.
Button_init(label, style, custom_id, url, disabled, emoji, fresh) ==
    LET self == [cls |-> "Button", style |-> style, label |-> label, url |-> url,
                 disabled |-> disabled,
                 emoji |-> IF emoji # NoEmoji THEN emoji_to_dict(emoji) ELSE NoEmoji,
                 custom_id |-> None]
        r == IF self.style # URL
             THEN Button_custom_id_setter(self, IF Truthy(custom_id) THEN custom_id ELSE fresh)
             ELSE Button_custom_id_setter(self, None)
    IN IF r.err = "ok" THEN r ELSE Raise(r.err, NoObj)

\* whether Button.__init__ evaluates str(uuid1()), line 553
Button_init_draws(style, custom_id) == style # URL /\ ~Truthy(custom_id)

\* Button.to_dict, 557-568
Button_to_dict(self) ==
    LET data == [type |-> 2, style |-> self.style, label |-> self.label,
                 custom_id |-> self.custom_id,
                 url |-> IF self.style = URL THEN self.url ELSE None,
                 disabled |-> self.disabled]
    IN IF EmojiTruthy(self.emoji)
       THEN LET e == emoji_dot_to_dict(self.emoji)
            IN IF e.err = "ok" THEN Ok(data @@ [emoji |-> e.val]) ELSE Raise(e.err, NoObj)
       ELSE Ok(data)

\* Button.from_json, 650-666
Button_from_json(data, fresh) ==
    LET emoji == GetEmoji(data)
    IN Button_init(data.label, data.style, data.custom_id, data.url, data.disabled,
                   IF emoji # NoEmoji /\ DOMAIN emoji # {} THEN PartialEmoji(emoji) ELSE NoEmoji,
                   fresh)

Button_from_json_draws(data) == Button_init_draws(data.style, data.custom_id)

---------------------------------------------------------------------------
(* SelectOption, component.py 233-355 *)

\* @emoji.setter, 313-315
SelectOption_emoji_setter(self, emoji) == Ok([self EXCEPT !.emoji = emoji_to_dict(emoji)])

\* @label.setter, 302-307: len(None) is a TypeError
SelectOption_label_setter(self, value) ==
    IF value = None THEN Raise("TypeError", self)
    ELSE IF value = "" THEN Raise("InvalidArgument", self)
    ELSE Ok([self EXCEPT !.label = value])

\* SelectOption.__init__, 252-269: label is stored without its setter
SelectOption_init(label, value, emoji, description, default) ==
    LET self == [cls |-> "SelectOption", label |-> label, value |-> value,
                 description |-> description, default |-> default, emoji |-> NoEmoji]
    IN IF emoji # NoEmoji
       THEN SelectOption_emoji_setter(self, emoji_to_dict(emoji))
       ELSE Ok(self)

\* SelectOption.to_dict, 271-280
SelectOption_to_dict(self) ==
    LET data == [label |-> self.label, value |-> self.value,
                 description |-> self.description, default |-> self.default]
    IN IF self.emoji # NoEmoji
       THEN LET e == emoji_dot_to_dict(self.emoji)
            IN IF e.err = "ok" THEN Ok(data @@ [emoji |-> e.val]) ELSE Raise(e.err, NoObj)
       ELSE Ok(data)

\* SelectOption.from_json, 340-355
SelectOption_from_json(data) ==
    LET emoji == GetEmoji(data)
    IN SelectOption_init(data.label, data.value,
                         IF emoji # NoEmoji /\ DOMAIN emoji # {} THEN PartialEmoji(emoji) ELSE NoEmoji,
                         data.description, data.default)

---------------------------------------------------------------------------
(* Select, component.py 358-495 *)

\* a length check that forgets the empty list
OptionsLengthBadNoEmptyCheck(options) == Len(options) > MaxOptions

\* (not len(options)) or (len(options) > 25), lines 396 and 447
OptionsLengthBad(options) == Len(options) = 0 \/ Len(options) > MaxOptions

\* Select.__init__, 386-404
Select_init(options, custom_id, placeholder, min_values, max_values, disabled, fresh) ==
    IF OptionsLengthBad(options)
    THEN Raise("InvalidArgument", NoObj)
    ELSE Ok([cls |-> "Select",
             custom_id |-> IF Truthy(custom_id) THEN custom_id ELSE fresh,
             options |-> options, placeholder |-> placeholder,
             min_values |-> min_values, max_values |-> max_values, disabled |-> disabled])

\* whether Select.__init__ evaluates str(uuid1()), line 399
Select_init_draws(options, custom_id) == ~OptionsLengthBad(options) /\ ~Truthy(custom_id)

\* @options.setter, 445-450
Select_options_setter(self, value) ==
    IF OptionsLengthBad(value)
    THEN Raise("InvalidArgument", self)
    ELSE Ok([self EXCEPT !.options = value])

\* set_options, 471-472
Select_set_options(self, value) == Select_options_setter(self, value)

\* one call of @custom_id.setter, 441-443, entered at the given stack depth:
\* its body, self.custom_id = value, is an assignment to the property
\* itself, so it calls the setter again one frame deeper; no call assigns
\* _custom_id. The interpreter ends the chain with RecursionError.
RECURSIVE Select_custom_id_setter_frame(_, _, _)
Select_custom_id_setter_frame(self, value, depth) ==
    IF depth > RecursionLimit THEN Raise("RecursionError", self)
    ELSE Select_custom_id_setter_frame(self, value, depth + 1)

\* x.custom_id = value, 441-443
Select_custom_id_setter(self, value) == Select_custom_id_setter_frame(self, value, 1)

\* Select.set_custom_id, 468-469: self.custom_id = value, one frame deeper
Select_set_custom_id(self, value) == Select_custom_id_setter_frame(self, value, 2)

\* the first index whose outcome is an error, 0 if there is none
FirstError(rs) ==
    IF \E i \in 1..Len(rs) : rs[i].err # "ok"
    THEN CHOOSE i \in 1..Len(rs) : rs[i].err # "ok" /\ \A j \in 1..(i - 1) : rs[j].err = "ok"
    ELSE 0

\* the values of a sequence of outcomes, or the first error among them
Collect(rs) ==
    IF FirstError(rs) = 0
    THEN Ok([i \in 1..Len(rs) |-> rs[i].val])
    ELSE Raise(rs[FirstError(rs)].err, NoObj)

\* Select.to_dict, 406-415
Select_to_dict(self) ==
    LET opts == Collect([i \in 1..Len(self.options) |-> SelectOption_to_dict(self.options[i])])
    IN IF opts.err # "ok" THEN opts
       ELSE Ok([type |-> 3, options |-> opts.val, custom_id |-> self.custom_id,
                placeholder |-> self.placeholder, min_values |-> self.min_values,
                max_values |-> self.max_values, disabled |-> self.disabled])

\* Select.from_json, 486-495
Select_from_json(data, fresh) ==
    LET opts == Collect([i \in 1..Len(data.options) |-> SelectOption_from_json(data.options[i])])
    IN IF opts.err # "ok" THEN opts
       ELSE Select_init(opts.val, data.custom_id, data.placeholder, data.min_values,
                        data.max_values, data.disabled, fresh)

Select_from_json_draws(data) == Select_init_draws(data.options, data.custom_id)

---------------------------------------------------------------------------
(* TextInput, component.py 56-199 *)

\* TextInput.__init__, 88-108
TextInput_init(style, custom_id, label, min_length, max_length, required, value, placeholder, fresh) ==
    Ok([cls |-> "TextInput",
        custom_id |-> IF Truthy(custom_id) THEN custom_id ELSE fresh,
        style |-> style, label |-> label, min_length |-> min_length,
        max_length |-> max_length, required |-> required, value |-> value,
        placeholder |-> placeholder])

\* whether TextInput.__init__ evaluates str(uuid1()), line 101
TextInput_init_draws(custom_id) == ~Truthy(custom_id)

\* TextInput.to_dict, 174-186
TextInput_to_dict(self) ==
    Ok([type |-> 4, custom_id |-> self.custom_id, style |-> self.style,
        label |-> self.label, min_length |-> self.min_length,
        max_length |-> self.max_length, required |-> self.required,
        value |-> self.value, placeholder |-> self.placeholder])

\* TextInput.from_json, 188-199
TextInput_from_json(data, fresh) ==
    TextInput_init(data.style, data.custom_id, data.label, data.min_length,
                   data.max_length, data.required, data.value, data.placeholder, fresh)

---------------------------------------------------------------------------
(* Modal, component.py 202-230 *)

\* str(uuid1), line 220: the text of the function object, uuid1 is not called
StrOfUuid1Function == "<function uuid1>"

\* Modal.__init__, 217-222
Modal_init(custom_id, title, comps) ==
    Ok([cls |-> "Modal",
        custom_id |-> IF Truthy(custom_id) THEN custom_id ELSE StrOfUuid1Function,
        title |-> title, components |-> comps])

---------------------------------------------------------------------------
(* The arguments tried *)

Labels == {None, "", "L"}
CustomIds == {None, "", "id"}
Urls == {None, "", "u"}
\* every ButtonStyle, and one value on each side of the range
StyleArgs == 0..(URL + 1)
OptionLabels == {"", "a", "b"}
OptionEmojis == {NoEmoji, StrEmoji}

\* two options as SelectOption.__init__ builds them, one of them with an emoji
PlainOption == SelectOption_init("a", "v", NoEmoji, None, FALSE).val
EmojiOption == SelectOption_init("b", "w", StrEmoji, "d", TRUE).val

\* the option lists tried: every length from 0 to past the largest accepted
OptionLists ==
    {[i \in 1..n |-> PlainOption] : n \in 0..(MaxOptions + ExtraOptions)}
        \cup {<<EmojiOption>>, <<PlainOption, EmojiOption>>}

---------------------------------------------------------------------------
(* The leaf objects: construction, setters, and to_dict followed by from_json *)

RowsIdle == components = NoObj /\ ret = NotCalled
IdsIdle == component = NoObj /\ ids = NotCalled

InitLeaf ==
    /\ uuid = 0
    /\ obj = NoObj
    /\ last = [op |-> "none"]
    /\ made = << >>
    /\ RowsIdle
    /\ IdsIdle

\* x = Button(label=..., style=..., custom_id=..., url=..., disabled=..., emoji=...)
NewButton(label, style, custom_id, url, disabled, emoji) ==
    /\ Button_init_draws(style, custom_id) => uuid < MaxUuid
    /\ LET r == Button_init(label, style, custom_id, url, disabled, emoji, uuid1(uuid + 1))
       IN /\ obj' = r.val
          /\ last' = [op |-> "Button", label |-> label, style |-> style,
                      custom_id |-> custom_id, url |-> url, emoji |-> emoji, err |-> r.err]
    /\ uuid' = IF Button_init_draws(style, custom_id) THEN uuid + 1 ELSE uuid
    /\ UNCHANGED <<made, components, ret, component, ids>>

\* x.style = value
ButtonSetStyle(value) ==
    /\ obj.cls = "Button"
    /\ LET r == Button_style_setter(obj, value)
       IN obj' = r.val /\ last' = [op |-> "Button.style", value |-> value, err |-> r.err]
    /\ UNCHANGED <<uuid, made, components, ret, component, ids>>

\* x.label = value
ButtonSetLabel(value) ==
    /\ obj.cls = "Button"
    /\ LET r == Button_label_setter(obj, value)
       IN obj' = r.val /\ last' = [op |-> "Button.label", value |-> value, err |-> r.err]
    /\ UNCHANGED <<uuid, made, components, ret, component, ids>>

\* x.url = value
ButtonSetUrl(value) ==
    /\ obj.cls = "Button"
    /\ LET r == Button_url_setter(obj, value)
       IN obj' = r.val /\ last' = [op |-> "Button.url", value |-> value, err |-> r.err]
    /\ UNCHANGED <<uuid, made, components, ret, component, ids>>

\* x.custom_id = value
ButtonSetCustomId(value) ==
    /\ obj.cls = "Button"
    /\ LET r == Button_custom_id_setter(obj, value)
       IN obj' = r.val /\ last' = [op |-> "Button.custom_id", value |-> value, err |-> r.err]
    /\ UNCHANGED <<uuid, made, components, ret, component, ids>>

\* x = SelectOption(label=..., value=..., emoji=..., description=..., default=...)
NewSelectOption(label, value, emoji, description, default) ==
    /\ LET r == SelectOption_init(label, value, emoji, description, default)
       IN /\ obj' = r.val
          /\ last' = [op |-> "SelectOption", label |-> label, emoji |-> emoji, err |-> r.err]
    /\ UNCHANGED <<uuid, made, components, ret, component, ids>>

\* x.label = value
OptionSetLabel(value) ==
    /\ obj.cls = "SelectOption"
    /\ LET r == SelectOption_label_setter(obj, value)
       IN /\ obj' = r.val
          /\ last' = [op |-> "SelectOption.label", value |-> value, err |-> r.err]
    /\ UNCHANGED <<uuid, made, components, ret, component, ids>>

\* x = Select(options=..., custom_id=..., placeholder=..., disabled=...)
NewSelect(options, custom_id, placeholder, disabled) ==
    /\ Select_init_draws(options, custom_id) => uuid < MaxUuid
    /\ LET r == Select_init(options, custom_id, placeholder, 1, 1, disabled, uuid1(uuid + 1))
       IN /\ obj' = r.val
          /\ last' = [op |-> "Select", options |-> options, custom_id |-> custom_id,
                      err |-> r.err]
    /\ uuid' = IF Select_init_draws(options, custom_id) THEN uuid + 1 ELSE uuid
    /\ UNCHANGED <<made, components, ret, component, ids>>

\* x.options = value
SelectSetOptions(value) ==
    /\ obj.cls = "Select"
    /\ LET r == Select_options_setter(obj, value)
       IN /\ obj' = r.val
          /\ last' = [op |-> "Select.options", value |-> value, err |-> r.err]
    /\ UNCHANGED <<uuid, made, components, ret, component, ids>>

\* x.set_options(value)
SelectCallSetOptions(value) ==
    /\ obj.cls = "Select"
    /\ LET r == Select_set_options(obj, value)
       IN /\ obj' = r.val
          /\ last' = [op |-> "Select.set_options", value |-> value, err |-> r.err]
    /\ UNCHANGED <<uuid, made, components, ret, component, ids>>

\* x.custom_id = value
SelectSetCustomId(value) ==
    /\ obj.cls = "Select"
    /\ LET r == Select_custom_id_setter(obj, value)
       IN /\ obj' = r.val
          /\ last' = [op |-> "Select.custom_id", value |-> value, before |-> obj,
                      err |-> r.err]
    /\ UNCHANGED <<uuid, made, components, ret, component, ids>>

\* x.set_custom_id(value)
SelectCallSetCustomId(value) ==
    /\ obj.cls = "Select"
    /\ LET r == Select_set_custom_id(obj, value)
       IN /\ obj' = r.val
          /\ last' = [op |-> "Select.set_custom_id", value |-> value, before |-> obj,
                      err |-> r.err]
    /\ UNCHANGED <<uuid, made, components, ret, component, ids>>

\* x = TextInput(style=..., custom_id=..., label=..., min_length=..., required=...)
NewTextInput(style, custom_id, label, min_length, required) ==
    /\ TextInput_init_draws(custom_id) => uuid < MaxUuid
    /\ LET r == TextInput_init(style, custom_id, label, min_length, NoneInt, required,
                               None, None, uuid1(uuid + 1))
       IN /\ obj' = r.val
          /\ last' = [op |-> "TextInput", custom_id |-> custom_id, err |-> r.err]
    /\ uuid' = IF TextInput_init_draws(custom_id) THEN uuid + 1 ELSE uuid
    /\ UNCHANGED <<made, components, ret, component, ids>>

\* x.to_dict() of a leaf object, by its class
to_dict_leaf(x) ==
    CASE x.cls = "Button" -> Button_to_dict(x)
      [] x.cls = "SelectOption" -> SelectOption_to_dict(x)
      [] x.cls = "Select" -> Select_to_dict(x)
      [] x.cls = "TextInput" -> TextInput_to_dict(x)

\* type(x).from_json(data) of a leaf class
from_json_leaf(cls, data, fresh) ==
    CASE cls = "Button" -> Button_from_json(data, fresh)
      [] cls = "SelectOption" -> SelectOption_from_json(data)
      [] cls = "Select" -> Select_from_json(data, fresh)
      [] cls = "TextInput" -> TextInput_from_json(data, fresh)

from_json_draws(cls, data) ==
    CASE cls = "Button" -> Button_from_json_draws(data)
      [] cls = "SelectOption" -> FALSE
      [] cls = "Select" -> Select_from_json_draws(data)
      [] cls = "TextInput" -> TextInput_init_draws(data.custom_id)

\* y = type(x).from_json(x.to_dict()), on the object a constructor just returned
RoundTrip ==
    /\ last.op \in {"Button", "SelectOption", "Select", "TextInput"}
    /\ last.err = "ok"
    /\ LET wire == to_dict_leaf(obj)
           draws == wire.err = "ok" /\ from_json_draws(obj.cls, wire.val)
       IN /\ draws => uuid < MaxUuid
          /\ last' = [op |-> "roundtrip", x |-> obj, wire |-> wire,
                      back |-> IF wire.err = "ok"
                               THEN from_json_leaf(obj.cls, wire.val, uuid1(uuid + 1))
                               ELSE NotCalled]
          /\ uuid' = IF draws THEN uuid + 1 ELSE uuid
    /\ UNCHANGED <<obj, made, components, ret, component, ids>>

\* Button: construction and the setters
NextButton ==
    \/ \E label \in Labels, style \in {2, URL}, custom_id \in {None, "id"}, url \in {None, "u"},
          emoji \in EmojiArgs : NewButton(label, style, custom_id, url, FALSE, emoji)
    \/ \E value \in StyleArgs : ButtonSetStyle(value)
    \/ \E value \in Labels : ButtonSetLabel(value)
    \/ \E value \in Urls : ButtonSetUrl(value)
    \/ \E value \in CustomIds : ButtonSetCustomId(value)

SpecButton == InitLeaf /\ [][NextButton]_vars

\* SelectOption and Select: construction and the setters
NextSelect ==
    \/ \E label \in OptionLabels, emoji \in OptionEmojis, description \in {None, "d"},
          default \in BOOLEAN : NewSelectOption(label, "v", emoji, description, default)
    \/ \E value \in OptionLabels \cup {None} : OptionSetLabel(value)
    \/ \E options \in OptionLists, custom_id \in {None, "id"} :
          NewSelect(options, custom_id, None, FALSE)
    \/ \E value \in OptionLists : SelectSetOptions(value)
    \/ \E value \in OptionLists : SelectCallSetOptions(value)
    \/ \E value \in {"id", "new"} : SelectSetCustomId(value)
    \/ \E value \in {"id", "new"} : SelectCallSetCustomId(value)

SpecSelect == InitLeaf /\ [][NextSelect]_vars

\* every leaf class: construction, then to_dict and from_json
NextWire ==
    \/ \E label \in Labels, style \in {2, URL}, custom_id \in {None, "id"}, url \in {None, "u"},
          disabled \in BOOLEAN, emoji \in EmojiArgs :
          NewButton(label, style, custom_id, url, disabled, emoji)
    \/ \E label \in OptionLabels, emoji \in OptionEmojis, description \in {None, "d"},
          default \in BOOLEAN : NewSelectOption(label, "v", emoji, description, default)
    \/ \E options \in OptionLists, custom_id \in {None, "id"}, disabled \in BOOLEAN :
          NewSelect(options, custom_id, None, disabled)
    \/ \E style \in 1..2, custom_id \in {None, "id"}, label \in {None, "L"},
          min_length \in {NoneInt, <<1>>}, required \in BOOLEAN :
          NewTextInput(style, custom_id, label, min_length, required)
    \/ RoundTrip

SpecWire == InitLeaf /\ [][NextWire]_vars

---------------------------------------------------------------------------
(* ActionRow and _get_components_json, component.py 669-758 *)

NoneObj == [cls |-> "NoneType"]
List(items) == [cls |-> "list", items |-> items]
LeafClasses == {"Button", "SelectOption", "Select", "TextInput"}

\* ActionRow.__init__, 679-680: the row holds list(args)
ActionRow_init(args) == [cls |-> "ActionRow", components |-> args]

\* x.to_dict() of any object; ActionRow.to_dict, 708-713, calls to_dict on
\* each component it holds; a list has no attribute to_dict
RECURSIVE to_dict(_)
to_dict(x) ==
    CASE x.cls = "ActionRow" ->
           LET cs == Collect([i \in 1..Len(x.components) |-> to_dict(x.components[i])])
           IN IF cs.err # "ok" THEN cs
              ELSE Ok([type |-> 1, components |-> cs.val])
      [] x.cls \in LeafClasses -> to_dict_leaf(x)
      [] OTHER -> Raise("AttributeError", NoObj)

\* a loop body that wraps a list as one component instead of unpacking it
WrapElementNoUnpack(c) ==
    IF c.cls # "ActionRow" THEN ActionRow_init(<<c>>) ELSE c

\* a loop body that leaves a bare component as it is
WrapElementSkipBare(c) ==
    IF c.cls = "list" THEN ActionRow_init(c.items) ELSE c

\* the body of the loop, 752-755: what components[i] is replaced by
WrapElement(c) ==
    IF c.cls = "list" THEN ActionRow_init(c.items)
    ELSE IF c.cls # "ActionRow" THEN ActionRow_init(<<c>>)
    ELSE c

\* the loop, 751-755, over the elements of the argument
WrapElements(elems) == [i \in 1..Len(elems) |-> WrapElement(elems[i])]

\* _get_components_json, 745-758. The outcome carries, as arg, the caller's
\* argument as the call leaves it: the loop assigns components[i] in place,
\* on a list and, through __len__, __getitem__ and __setitem__ (693-703), on
\* an ActionRow. len() of any other object is a TypeError.
_get_components_json(comps) ==
    IF comps.cls = "NoneType"
    THEN [err |-> "ok", val |-> NoneObj, arg |-> comps]
    ELSE IF comps.cls \notin {"list", "ActionRow"}
    THEN [err |-> "TypeError", val |-> NoObj, arg |-> comps]
    ELSE LET elems == IF comps.cls = "list" THEN comps.items ELSE comps.components
             lines == WrapElements(elems)
             after == IF comps.cls = "list" THEN List(lines) ELSE ActionRow_init(lines)
             rows == Collect([i \in 1..Len(lines) |-> to_dict(lines[i])])
         IN IF Len(lines) = 0 THEN [err |-> "ok", val |-> List(<< >>), arg |-> after]
            ELSE IF rows.err # "ok" THEN [err |-> rows.err, val |-> NoObj, arg |-> after]
            ELSE [err |-> "ok", val |-> List(rows.val), arg |-> after]

\* the components tried: two buttons, a button with an emoji, a select
ButtonA == Button_init("A", 2, "id1", None, FALSE, NoEmoji, None).val
ButtonB == Button_init("B", 1, "id2", None, FALSE, NoEmoji, None).val
EmojiButton == Button_init(None, 2, "id3", None, FALSE, StrEmoji, None).val
SelectA == Select_init(<<PlainOption>>, "id4", None, 1, 1, FALSE, None).val
BareComponents == {ButtonA, ButtonB, EmojiButton, SelectA}

\* the elements of the caller's list: bare components, rows and plain lists
RowElements ==
    BareComponents
        \cup {ActionRow_init(<< >>), ActionRow_init(<<ButtonA>>), ActionRow_init(<<ButtonA, ButtonB>>)}
        \cup {List(<< >>), List(<<ButtonB>>), List(<<ButtonA, EmojiButton>>)}

\* all sequences of at most n elements of S
SeqsUpTo(S, n) == UNION {[1..k -> S] : k \in 0..n}

\* the arguments tried: None, a bare component, a row, and every list of at
\* most MaxRows elements
RowArgs ==
    {NoneObj} \cup BareComponents
        \cup {ActionRow_init(<<ButtonA, ButtonB>>)}
        \cup {List(items) : items \in SeqsUpTo(RowElements, MaxRows)}

LeafIdle == uuid = 0 /\ obj = NoObj /\ last = [op |-> "none"] /\ made = << >>

InitRows ==
    /\ LeafIdle
    /\ IdsIdle
    /\ components \in RowArgs
    /\ ret = NotCalled

\* ret = _get_components_json(components)
GetComponentsJson ==
    /\ LET r == _get_components_json(components)
       IN /\ components' = r.arg
          /\ ret' = [err |-> r.err, val |-> r.val, given |-> components]
    /\ UNCHANGED <<uuid, obj, last, made, component, ids>>

NextRows == GetComponentsJson

SpecRows == InitRows /\ [][NextRows]_vars

---------------------------------------------------------------------------
(* An ActionRow under construction: the constructor, append and          *)
(* disable_components, component.py 679-730                               *)

\* Button.disabled setter, 624-626
Button_disabled_setter(self, value) == Ok([self EXCEPT !.disabled = value])

\* Select.disabled setter, 464-466
Select_disabled_setter(self, value) == Ok([self EXCEPT !.disabled = value])

\* x.name = value on an object whose class has no property of that name:
\* Component, 38-48, declares no __slots__, so every component has an
\* instance __dict__ and the assignment creates or replaces the attribute
SetAttr(x, name, value) ==
    [f \in DOMAIN x \cup {name} |-> IF f = name THEN value ELSE x[f]]

\* a disable that reaches buttons only
disable_buttons_only(c) ==
    IF c.cls = "Button" THEN Button_disabled_setter(c, TRUE)
    ELSE Ok(c)

\* disable, 683-685: c.disabled = True, by the class of c;
\* a list accepts no attribute
disable(c) ==
    CASE c.cls = "Button" -> Button_disabled_setter(c, TRUE)
      [] c.cls = "Select" -> Select_disabled_setter(c, TRUE)
      [] c.cls = "list" -> Raise("AttributeError", c)
      [] OTHER -> Ok(SetAttr(c, "disabled", TRUE))

\* ActionRow.disable_components, 682-688. The outcome carries the value
\* returned (val) and the row as the call leaves it (self). map() runs
\* disable on the components in order; the first one that raises ends the
\* call before _components is assigned, the components before it having
\* been changed already.
ActionRow_disable_components(self) ==
    LET n == Len(self.components)
        rs == [i \in 1..n |-> disable(self.components[i])]
        bad == {i \in 1..n : rs[i].err # "ok"}
        stop == IF bad = {} THEN n + 1 ELSE CHOOSE i \in bad : \A j \in bad : i <= j
        after == [i \in 1..n |-> IF i < stop THEN rs[i].val ELSE self.components[i]]
        row == [self EXCEPT !.components = after]
    IN IF bad = {} THEN [err |-> "ok", val |-> row, self |-> row]
       ELSE [err |-> rs[stop].err, val |-> NoObj, self |-> row]

\* ActionRow.append, 715-716
ActionRow_append(self, c) == Ok([self EXCEPT !.components = Append(@, c)])

\* what a row is built from: a button, a disabled button, a button with an
\* emoji, a select, a text input, and a plain list, which is no component
DisabledButton == Button_init("D", 1, "id5", None, TRUE, NoEmoji, None).val
TextInputA == TextInput_init(1, "id6", "T", NoneInt, NoneInt, TRUE, None, None, None).val
RowLeaves == {ButtonA, DisabledButton, EmojiButton, SelectA, TextInputA}
RowMembers == RowLeaves \cup {List(<<ButtonB>>)}

InitActionRow == InitLeaf

\* x = ActionRow(c1, ..., cn)
NewActionRow(args) ==
    /\ obj' = ActionRow_init(args)
    /\ last' = [op |-> "ActionRow", err |-> "ok"]
    /\ UNCHANGED <<uuid, made, components, ret, component, ids>>

\* x.append(c)
RowAppend(c) ==
    /\ obj.cls = "ActionRow"
    /\ Len(obj.components) < MaxRowLen
    /\ LET r == ActionRow_append(obj, c)
       IN /\ obj' = r.val
          /\ last' = [op |-> "ActionRow.append", err |-> r.err]
    /\ UNCHANGED <<uuid, made, components, ret, component, ids>>

\* y = x.disable_components()
DisableComponents ==
    /\ obj.cls = "ActionRow"
    /\ LET r == ActionRow_disable_components(obj)
       IN /\ obj' = r.self
          /\ last' = [op |-> "ActionRow.disable_components", before |-> obj,
                      returned |-> r.val, err |-> r.err]
    /\ UNCHANGED <<uuid, made, components, ret, component, ids>>

NextActionRow ==
    \/ \E args \in SeqsUpTo(RowMembers, MaxRowLen) : NewActionRow(args)
    \/ \E c \in RowMembers : RowAppend(c)
    \/ DisableComponents

SpecActionRow == InitActionRow /\ [][NextActionRow]_vars

---------------------------------------------------------------------------
(* Modal.to_dict and get_components_ids *)

\* Modal.to_dict, component.py 224-230: each component in a row of its own.
\* The record has no type key.
Modal_to_dict(self) ==
    LET rows == Collect([i \in 1..Len(self.components) |->
                            to_dict(ActionRow_init(<<self.components[i]>>))])
    IN IF rows.err # "ok" THEN rows
       ELSE Ok([custom_id |-> self.custom_id, title |-> self.title, components |-> rows.val])

\* ComponentType.actionrow
ActionRowType == 1

\* the arguments of get_components_ids: a str, an int, a dict, a list
PyStr(v) == [py |-> "str", v |-> v]
PyInt(n) == [py |-> "int", v |-> n]
PyList(items) == [py |-> "list", items |-> items]

\* the elements of a sequence of dicts that have the key, in order
RECURSIVE Having(_, _)
Having(comps, key) ==
    IF comps = << >> THEN << >>
    ELSE (IF key \in DOMAIN Head(comps) THEN <<Head(comps)>> ELSE << >>)
             \o Having(Tail(comps), key)

\* a dict branch that yields the children of a row whether or not they have
\* a custom_id key, None for those that have none
ids_of_dict_unfiltered(d) ==
    IF "type" \notin DOMAIN d THEN [out |-> << >>, err |-> "KeyError"]
    ELSE IF d.type = ActionRowType
    THEN [out |-> [i \in 1..Len(d.components) |->
                      IF "custom_id" \in DOMAIN d.components[i]
                      THEN d.components[i].custom_id ELSE None],
          err |-> "ok"]
    ELSE IF "custom_id" \in DOMAIN d THEN [out |-> <<d.custom_id>>, err |-> "ok"]
    ELSE [out |-> << >>, err |-> "ok"]

\* the dict branch, manage_components.py 21-27: component["type"] is a
\* KeyError on a dict with no type key
ids_of_dict(d) ==
    IF "type" \notin DOMAIN d THEN [out |-> << >>, err |-> "KeyError"]
    ELSE IF d.type = ActionRowType
    THEN LET with == Having(d.components, "custom_id")
         IN [out |-> [i \in 1..Len(with) |-> with[i].custom_id], err |-> "ok"]
    ELSE IF "custom_id" \in DOMAIN d THEN [out |-> <<d.custom_id>>, err |-> "ok"]
    ELSE [out |-> << >>, err |-> "ok"]

\* get_components_ids, manage_components.py 12-35, consumed to its end: out
\* is what the generator yielded, in order, and err the exception that ended
\* it ("ok" when it was exhausted)
RECURSIVE get_components_ids(_), ids_of_list(_, _)
get_components_ids(c) ==
    CASE c.py = "str" -> [out |-> <<c.v>>, err |-> "ok"]
      [] c.py = "dict" -> ids_of_dict(c.d)
      [] c.py = "list" -> ids_of_list(c.items, 1)
      [] OTHER -> [out |-> << >>, err |-> "IncorrectType"]

\* the list branch, 28-30: the ids of the elements from the i-th on
ids_of_list(items, i) ==
    IF i > Len(items) THEN [out |-> << >>, err |-> "ok"]
    ELSE LET r == get_components_ids(items[i])
         IN IF r.err # "ok" THEN r
            ELSE LET rest == ids_of_list(items, i + 1)
                 IN [out |-> r.out \o rest.out, err |-> rest.err]

\* the dicts tried: the wire records of a button, of a select, of a row of
\* two buttons, of a row of a button and a received link button (which has
\* no custom_id key), that link button, and the record of a Modal
LinkButtonJson == [type |-> 2, style |-> URL, label |-> "L", url |-> "u", disabled |-> FALSE]
ButtonAJson == Button_to_dict(ButtonA).val
RowJson == to_dict(ActionRow_init(<<ButtonA, ButtonB>>)).val
LinkRowJson == [type |-> ActionRowType, components |-> <<LinkButtonJson, ButtonAJson>>]
ModalJson == Modal_to_dict(Modal_init("m", "t", << >>).val).val
IdAtoms ==
    {PyStr("abc"), PyStr("xyz"), PyInt(42),
     Dict(ButtonAJson), Dict(Select_to_dict(SelectA).val), Dict(RowJson), Dict(LinkRowJson),
     Dict(LinkButtonJson), Dict(ModalJson)}

\* the elements of a list: the atoms and some lists of them
IdElements ==
    IdAtoms \cup {PyList(<< >>), PyList(<<PyStr("abc")>>), PyList(<<Dict(RowJson), PyStr("xyz")>>),
                  PyList(<<PyInt(42), PyStr("abc")>>)}

IdArgs == IdElements \cup {PyList(items) : items \in SeqsUpTo(IdElements, MaxIds)}

InitIds ==
    /\ LeafIdle
    /\ RowsIdle
    /\ component \in IdArgs
    /\ ids = NotCalled

\* ids = list(get_components_ids(component))
GetComponentsIds ==
    /\ ids' = get_components_ids(component)
    /\ UNCHANGED <<uuid, obj, last, made, components, ret, component>>

NextIds == GetComponentsIds

SpecIds == InitIds /\ [][NextIds]_vars

---------------------------------------------------------------------------
(* Components constructed without an explicit custom_id *)

InitMade == InitLeaf

Record(x) == Append(made, [cls |-> x.cls, custom_id |-> x.custom_id])

\* Button(label=label, style=style) with a style that is not Link
MakeButton(label, style) ==
    /\ Len(made) < MaxMade
    /\ made' = Record(Button_init(label, style, None, None, FALSE, NoEmoji, uuid1(uuid + 1)).val)
    /\ uuid' = uuid + 1
    /\ UNCHANGED <<obj, last, components, ret, component, ids>>

\* Select(options=[option])
MakeSelect ==
    /\ Len(made) < MaxMade
    /\ made' = Record(Select_init(<<PlainOption>>, None, None, 1, 1, FALSE, uuid1(uuid + 1)).val)
    /\ uuid' = uuid + 1
    /\ UNCHANGED <<obj, last, components, ret, component, ids>>

\* TextInput(style=1, label=label)
MakeTextInput(label) ==
    /\ Len(made) < MaxMade
    /\ made' = Record(TextInput_init(1, None, label, NoneInt, NoneInt, TRUE, None, None,
                                     uuid1(uuid + 1)).val)
    /\ uuid' = uuid + 1
    /\ UNCHANGED <<obj, last, components, ret, component, ids>>

\* Modal(title=title, components=[])
MakeModal(title) ==
    /\ Len(made) < MaxMade
    /\ made' = Record(Modal_init(None, title, << >>).val)
    /\ UNCHANGED <<uuid, obj, last, components, ret, component, ids>>

NextMade ==
    \/ \E label \in {"L"}, style \in {1, 2} : MakeButton(label, style)
    \/ MakeSelect
    \/ \E label \in {"L"} : MakeTextInput(label)
    \/ \E title \in {"a", "b"} : MakeModal(title)

SpecMade == InitMade /\ [][NextMade]_vars

---------------------------------------------------------------------------
(* Claims about Button, checked under SpecButton *)

\* C1: a Button construction with a null or empty label and no emoji fails
\* with InvalidArgument, and a construction given exactly one of label and
\* emoji (a non-Link style, no url) succeeds.
C1_ButtonNeedsLabelOrEmoji ==
    last.op = "Button" =>
        /\ (~Truthy(last.label) /\ last.emoji = NoEmoji) => last.err = "InvalidArgument"
        /\ ((Truthy(last.label) # (last.emoji # NoEmoji)) /\ last.style # URL
                /\ last.url = None) => last.err = "ok"

\* C2: a Button construction with style Link and a non-null custom_id fails;
\* with style Link, a non-null url and a null custom_id it succeeds, the
\* button holding the url and no custom_id; with any other style and a
\* non-null url it fails.
C2_LinkDecidesIdAndUrl ==
    last.op = "Button" =>
        /\ (last.style = URL /\ last.custom_id # None) => last.err = "InvalidArgument"
        /\ (last.style = URL /\ last.url # None /\ last.custom_id = None) =>
               (last.err = "ok" /\ obj.url = last.url /\ obj.custom_id = None)
        /\ (last.style # URL /\ last.url # None) => last.err = "InvalidArgument"

\* C3: whatever setters were called on a constructed Button, its url is
\* populated exactly when its style is Link and its custom_id exactly when
\* its style is not Link.
C3_ExactlyOneOfIdAndUrl ==
    obj.cls = "Button" =>
        /\ Truthy(obj.url) <=> obj.style = URL
        /\ Truthy(obj.custom_id) <=> obj.style # URL

---------------------------------------------------------------------------
(* Claims about Select and SelectOption, checked under SpecSelect *)

SelectOptionsCalls == {"Select.options", "Select.set_options"}

\* C4: a Select always holds between 1 and MaxOptions options; construction,
\* the options setter and set_options raise InvalidArgument for a list of 0
\* or of more than MaxOptions options and succeed for every other length;
\* and an assignment that raises leaves the Select as it was.
C4_SelectOptionsLength ==
    [][/\ obj'.cls = "Select" => Len(obj'.options) \in 1..MaxOptions
       /\ last'.op = "Select" =>
              /\ last'.err = IF Len(last'.options) \in 1..MaxOptions
                             THEN "ok" ELSE "InvalidArgument"
              /\ last'.err = "ok" => obj'.options = last'.options
       /\ last'.op \in SelectOptionsCalls =>
              /\ last'.err = IF Len(last'.value) \in 1..MaxOptions
                             THEN "ok" ELSE "InvalidArgument"
              /\ last'.err = "ok" => obj'.options = last'.value
              /\ last'.err # "ok" => obj' = obj]_vars

\* C4's case: set_options has refused a list of MaxOptions + 1 options on a
\* Select that holds MaxOptions options
C4_Witness ==
    /\ obj.cls = "Select"
    /\ last.op = "Select.set_options"
    /\ last.err = "InvalidArgument"
    /\ Len(last.value) = MaxOptions + 1
    /\ Len(obj.options) = MaxOptions

\* C5: a SelectOption never holds an empty label: a construction with an
\* empty label fails, and the label setter refuses an empty label.
C5_OptionLabelNeverEmpty ==
    /\ obj.cls = "SelectOption" => obj.label # ""
    /\ (last.op = "SelectOption" /\ last.label = "") => last.err = "InvalidArgument"
    /\ (last.op = "SelectOption.label" /\ last.value = "") => last.err = "InvalidArgument"

\* C13: x.custom_id = value and x.set_custom_id(value) on a constructed
\* Select return normally; afterwards the custom_id of the Select is value,
\* and its options, placeholder, min_values, max_values and disabled are as
\* before the call.
C13_SelectCustomIdAssigned ==
    last.op \in {"Select.custom_id", "Select.set_custom_id"} =>
        /\ last.err = "ok"
        /\ obj.custom_id = last.value
        /\ obj = [last.before EXCEPT !.custom_id = last.value]

---------------------------------------------------------------------------
(* Claims about to_dict and from_json, checked under SpecWire *)

\* the objects that satisfy the invariants stated for their class: a Button
\* has a label or an emoji, a url exactly when its style is Link and a
\* custom_id exactly when it is not; a SelectOption has a non-empty label; a
\* Select has between 1 and MaxOptions such options
ValidLeaf(x) ==
    CASE x.cls = "Button" ->
           /\ Truthy(x.label) \/ x.emoji # NoEmoji
           /\ Truthy(x.url) <=> x.style = URL
           /\ Truthy(x.custom_id) <=> x.style # URL
      [] x.cls = "SelectOption" -> x.label # ""
      [] x.cls = "Select" ->
           /\ Len(x.options) \in 1..MaxOptions
           /\ \A i \in 1..Len(x.options) : x.options[i].label # ""
      [] OTHER -> TRUE

\* C6: for every validly constructed Button, Select, SelectOption and
\* TextInput x, with or without an emoji, x.to_dict() succeeds and from_json
\* of it yields an object equal to x in every field.
C6_RoundTrip ==
    (last.op = "roundtrip" /\ ValidLeaf(last.x)) =>
        /\ last.wire.err = "ok"
        /\ last.back.err = "ok"
        /\ last.back.val = last.x

---------------------------------------------------------------------------
(* Claims about _get_components_json, checked under SpecRows *)

\* the row the element-wise rule asks for: the row itself, a row of the
\* elements of a plain list, or a row of the one bare component
ExpectedRow(e) ==
    CASE e.cls = "ActionRow" -> e
      [] e.cls = "list" -> [cls |-> "ActionRow", components |-> e.items]
      [] OTHER -> [cls |-> "ActionRow", components |-> <<e>>]

ExpectedRows(items) == [i \in 1..Len(items) |-> ExpectedRow(items[i])]

\* C7 as stated: None yields None, and a list yields a list of the same
\* length whose i-th entry is the row the element-wise rule asks for.
C7_ElementwiseRows ==
    ret # NotCalled =>
        /\ ret.given = NoneObj => (ret.err = "ok" /\ ret.val = NoneObj)
        /\ ret.given.cls = "list" =>
               (ret.err = "ok" /\ ret.val = List(ExpectedRows(ret.given.items)))

\* C7, amended: None yields None; for a list, the rows the element-wise rule
\* asks for are stored in the caller's list, in place, and the result is
\* what to_dict() yields on them: the list of their wire records in the same
\* order, or the error of the first row whose to_dict() raises.
C7_ElementwiseWireRows ==
    ret # NotCalled =>
        /\ ret.given = NoneObj => (ret.err = "ok" /\ ret.val = NoneObj)
        /\ ret.given.cls = "list" =>
               LET rows == ExpectedRows(ret.given.items)
                   wire == Collect([i \in 1..Len(rows) |-> to_dict(rows[i])])
               IN /\ components = List(rows)
                  /\ ret.err = wire.err
                  /\ ret.err = "ok" =>
                         /\ ret.val.cls = "list"
                         /\ Len(ret.val.items) = Len(ret.given.items)
                         /\ ret.val.items = wire.val

\* C7's case: a list holding a plain list, a row and a bare component has
\* been normalised
C7_Witness ==
    /\ ret # NotCalled
    /\ ret.err = "ok"
    /\ ret.given = List(<<List(<<ButtonB>>), ButtonA>>)
    /\ components = List(<<ActionRow_init(<<ButtonB>>), ActionRow_init(<<ButtonA>>)>>)
    /\ Len(ret.val.items) = 2

\* buttons whose to_dict() succeeds
PlainButtons == {ButtonA, ButtonB}

\* C8 as stated, for buttons without an emoji and whether the result holds
\* the rows or their wire records: a bare component given directly yields
\* one row holding it, and [btn1, btn2] yields one row holding btn1, btn2.
C8_BareComponentsShareARow ==
    ret # NotCalled =>
        /\ ret.given \in PlainButtons =>
               /\ ret.err = "ok"
               /\ ret.val \in {List(<<ActionRow_init(<<ret.given>>)>>),
                               List(<<to_dict(ActionRow_init(<<ret.given>>)).val>>)}
        /\ (ret.given.cls = "list" /\ Len(ret.given.items) = 2
                /\ \A i \in 1..2 : ret.given.items[i] \in PlainButtons
                /\ ret.given.items[1] # ret.given.items[2]) =>
               /\ ret.err = "ok"
               /\ ret.val \in {List(<<ActionRow_init(ret.given.items)>>),
                               List(<<to_dict(ActionRow_init(ret.given.items)).val>>)}

\* C8, amended: a bare component given directly makes the call raise
\* TypeError and is left as it was; [btn1, btn2] leaves two rows of one
\* button each in the caller's list, in that order, and the result is their
\* two wire records in that order, or AttributeError when to_dict() of a
\* button raises.
C8_BareComponentsGetOwnRows ==
    ret # NotCalled =>
        /\ ret.given \in BareComponents =>
               (ret.err = "TypeError" /\ components = ret.given)
        /\ (ret.given.cls = "list" /\ Len(ret.given.items) = 2
                /\ \A i \in 1..2 : ret.given.items[i] \in BareComponents) =>
               LET btn1 == ret.given.items[1]
                   btn2 == ret.given.items[2]
                   json1 == to_dict_leaf(btn1)
                   json2 == to_dict_leaf(btn2)
               IN /\ components = List(<<[cls |-> "ActionRow", components |-> <<btn1>>],
                                         [cls |-> "ActionRow", components |-> <<btn2>>]>>)
                  /\ IF json1.err = "ok" /\ json2.err = "ok"
                     THEN /\ ret.err = "ok"
                          /\ ret.val = List(<<[type |-> 1, components |-> <<json1.val>>],
                                              [type |-> 1, components |-> <<json2.val>>]>>)
                     ELSE ret.err = "AttributeError"

\* C8's case: [btn1, btn2] has been passed and two rows came back
C8_Witness ==
    /\ ret # NotCalled
    /\ ret.given = List(<<ButtonA, ButtonB>>)
    /\ ret.err = "ok"
    /\ Len(ret.val.items) = 2

\* C12: _get_components_json changes nothing it is given: after the call the
\* caller's argument, a list or a row, holds the same elements in the same
\* order as before the call, and so does every row inside it.
C12_ArgumentUnchanged ==
    ret # NotCalled => components = ret.given

---------------------------------------------------------------------------
(* Claims about get_components_ids, checked under SpecIds *)

\* the custom_ids of the children of a row record that have one, in order
RECURSIVE ChildIds(_)
ChildIds(children) ==
    IF children = << >> THEN << >>
    ELSE (IF "custom_id" \in DOMAIN Head(children) THEN <<Head(children).custom_id>> ELSE << >>)
             \o ChildIds(Tail(children))

\* what the elements of a list yield one after the other, up to the first
\* element that fails
RECURSIVE Concatenated(_)
Concatenated(items) ==
    IF items = << >> THEN [out |-> << >>, err |-> "ok"]
    ELSE LET r == get_components_ids(Head(items))
         IN IF r.err # "ok" THEN r
            ELSE [out |-> r.out \o Concatenated(Tail(items)).out,
                  err |-> Concatenated(Tail(items)).err]

IsRowRecord(d) == "type" \in DOMAIN d /\ d.type = ActionRowType

\* the cases of C9 that do not depend on how a record is keyed
IdsOfStrListOther ==
    /\ component.py = "str" => ids = [out |-> <<component.v>>, err |-> "ok"]
    /\ (component.py = "dict" /\ IsRowRecord(component.d)) =>
           ids = [out |-> ChildIds(component.d.components), err |-> "ok"]
    /\ component.py = "list" => ids = Concatenated(component.items)
    /\ component.py \notin {"str", "dict", "list"} =>
           ids = [out |-> << >>, err |-> "IncorrectType"]

\* C9 as stated: a string yields itself, a row record the custom_ids of its
\* children that have one, any other record that has a custom_id field that
\* custom_id, a list the concatenation of what its elements yield, and any
\* other shape fails with IncorrectType.
C9_ExtractCustomIds ==
    ids # NotCalled =>
        /\ IdsOfStrListOther
        /\ (component.py = "dict" /\ ~IsRowRecord(component.d)
                /\ "custom_id" \in DOMAIN component.d) =>
               ids = [out |-> <<component.d.custom_id>>, err |-> "ok"]

\* C9, amended: as stated, except that a record which is not a row yields
\* its custom_id only if it has a type field as well: a record with no type
\* field fails with KeyError, and a record with a type field and no
\* custom_id yields nothing.
C9_ExtractCustomIdsOfTypedRecords ==
    ids # NotCalled =>
        /\ IdsOfStrListOther
        /\ (component.py = "dict" /\ ~IsRowRecord(component.d)) =>
               ids = IF "type" \notin DOMAIN component.d
                     THEN [out |-> << >>, err |-> "KeyError"]
                     ELSE IF "custom_id" \in DOMAIN component.d
                     THEN [out |-> <<component.d.custom_id>>, err |-> "ok"]
                     ELSE [out |-> << >>, err |-> "ok"]

\* C9's case: [row, "xyz"] has yielded the ids of the row's two buttons and
\* then "xyz"
C9_Witness ==
    /\ component = PyList(<<Dict(RowJson), PyStr("xyz")>>)
    /\ ids = [out |-> <<"id1", "id2", "xyz">>, err |-> "ok"]

---------------------------------------------------------------------------
(* Claims about generated custom_ids, checked under SpecMade *)

\* C10: any two components constructed without an explicit custom_id have
\* distinct custom_ids.
C10_GeneratedIdsDistinct ==
    \A i, j \in 1..Len(made) : i # j => made[i].custom_id # made[j].custom_id

---------------------------------------------------------------------------
(* Claims about ActionRow.disable_components, checked under SpecActionRow *)

\* the row holds leaf components only
HoldsLeaves(row) ==
    \A i \in 1..Len(row.components) :
        row.components[i].cls \in {"Button", "Select", "TextInput"}

\* every component of the row has disabled = True
AllDisabled(row) ==
    \A i \in 1..Len(row.components) :
        /\ "disabled" \in DOMAIN row.components[i]
        /\ row.components[i].disabled = TRUE

\* x and y agree on every field but disabled
SameButDisabled(x, y) ==
    /\ DOMAIN x \ {"disabled"} = DOMAIN y \ {"disabled"}
    /\ \A f \in DOMAIN x \ {"disabled"} : x[f] = y[f]

\* C11: on a row of leaf components disable_components() returns the row
\* itself; afterwards every component has disabled = True, the row holds as
\* many components as before, in the same order, each with its other fields
\* as before; and a call on a row whose components are all disabled already
\* (a second call) leaves the row exactly as it was.
C11_DisableComponents ==
    (last.op = "ActionRow.disable_components" /\ HoldsLeaves(last.before)) =>
        /\ last.err = "ok"
        /\ last.returned = obj
        /\ obj.cls = "ActionRow"
        /\ Len(obj.components) = Len(last.before.components)
        /\ AllDisabled(obj)
        /\ \A i \in 1..Len(obj.components) :
              SameButDisabled(obj.components[i], last.before.components[i])
        /\ AllDisabled(last.before) => obj = last.before

\* C11 happens: a second call in a row on a row that held an enabled
\* button and a text input
C11_Witness ==
    /\ last.op = "ActionRow.disable_components"
    /\ last.err = "ok"
    /\ Len(obj.components) = 2
    /\ obj.components[2].cls = "TextInput"
    /\ obj.components[1].custom_id = ButtonA.custom_id
    /\ AllDisabled(last.before)
    /\ obj = last.before

=============================================================================
